---- MODULE Spec2Model ----
(***************************************************************************)
(* The MessageBroker of inputremapper/gui/message_broker.py as a state    *)
(* machine: the listener registry, the message deque, the _sending flag   *)
(* and the Python call stack of the (single) thread that uses the broker. *)
(* Listeners are arbitrary callbacks: while one runs it may call send,    *)
(* subscribe and unsubscribe any number of times and then return or       *)
(* raise. Messages are objects with a kind, Signals among them; one        *)
(* listener is the confirm dialog of gui/components/common.py, which       *)
(* answers a UserConfirmRequest through its respond callback.              *)
(*                                                                         *)
(* Spec explores messages of kind mapping and signals of kind test1;       *)
(* SpecSignal, SpecSnapshot and SpecConfirm explore shorter runs with      *)
(* signals sent both ways, with the listener set at each append noted,     *)
(* and with the confirm dialog.                                            *)
(***************************************************************************)
EXTENDS Integers, Sequences, FiniteSets, TLC

\* number of send calls explored (each appends one entry)
MaxMsgs == 3
\* number of subscribe and unsubscribe calls explored
MaxRegOps == 3

\* three members of the MessageType enum
Kinds == {"mapping", "test1", "user_confirm_request"}
\* two callbacks (MessageListener values)
Listeners == {"A", "B"}
\* the callback that is ConfirmCancelDialog._on_user_confirm_request
\* (whenever it is called with a UserConfirmRequest)
DialogListener == "A"
\* what Gtk's message_dialog.run() returns: one of the two buttons, or
\* the dialog was closed
Responses == {"ACCEPT", "CANCEL", "DELETE_EVENT"}
Ids == 1..MaxMsgs

VARIABLES
    listeners,  \* self._listeners: kind -> set of listeners
    messages,   \* self._messages: the deque, as a sequence of entries
    sending,    \* self._sending
    stack,      \* the call stack: _send_all and listener activations
    nextId,     \* the number the next appended entry gets (append order)
    regOps,     \* the number of subscribe and unsubscribe calls made so far
    popped,     \* history: ids in the order _send_all popped them
    hist,       \* per entry: what happened to it (history) and the answer its
                \* respond callback was called with
    gone,       \* history: listeners unsubscribed and not subscribed since
    twice,      \* history: <<kind, listener>> subscribed again while registered
    call,       \* history: the current or last top-level send call
    lastRaise,  \* history: the last exception that left the broker
    ret         \* history: what the last subscribe call returned

vars == <<listeners, messages, sending, stack, nextId, regOps, popped, hist, gone,
          twice, call, lastRaise, ret>>

----------------------------------------------------------------------------
\* Data-structure operations of the code

\* deque.append, line 104
Enqueue_Left(q, e) == <<e>> \o q
Enqueue(q, e) == Append(q, e)

\* deque.popleft, line 125
PopLeft_Peek(q) == [head |-> Head(q), rest |-> q]
PopLeft(q) == [head |-> Head(q), rest |-> Tail(q)]

\* `while self._messages:`, line 124
QueueNonEmpty_OffByOne(q) == Len(q) > 1
QueueNonEmpty(q) == q # <<>>

\* `if self._sending: return`, lines 118-120
AlreadySending_Never(s) == FALSE
AlreadySending(s) == s

\* `finally: self._sending = False`, lines 126-127: the flag after the
\* try block is left, whatever it was
Finally_Keep(s) == s
Finally(s) == FALSE

\* the listeners _send still has to call: it iterates over a copy (snap)
\* of the set taken when the loop started, not over the live set, line 113
Remaining_Live(snap, live, done) == live \ done
Remaining_NoCopy(snap, live, done) == IF live = snap THEN snap \ done ELSE {}
Remaining(snap, live, done) == snap \ done

\* `self._listeners[data.message_type]`, line 113: the listeners of the
\* entry's kind
ListenersFor_All(reg, k) == UNION {reg[j] : j \in Kinds}
ListenersFor(reg, k) == reg[k]

\* `.copy()`, line 113: _send copies the set when the entry is popped; the
\* set as it was when the entry was appended plays no part
CopyAtPop_AtSend(atSend, atPop) == atSend
CopyAtPop(atSend, atPop) == atPop

\* `return self`, line 133
SubscribeResult == "self"

\* set.add, line 132
SetAdd_Toggle(s, l) == IF l \in s THEN s \ {l} ELSE s \cup {l}
SetAdd(s, l) == s \cup {l}

\* set.remove inside try/except KeyError: pass, lines 143-146: the set
\* afterwards and whether a KeyError leaves the try statement
RemoveQuietly_Raising(s, l) == [set |-> s \ {l}, raised |-> l \notin s]
RemoveQuietly(s, l) == [set |-> s \ {l}, raised |-> FALSE]

\* the loop of unsubscribe over self._listeners.values(), lines 142-146
RemoveEverywhere_OnlyMapping(reg, l) ==
    [k \in Kinds |-> IF k = "mapping" THEN RemoveQuietly(reg[k], l)
                     ELSE [set |-> reg[k], raised |-> FALSE]]
RemoveEverywhere(reg, l) == [k \in Kinds |-> RemoveQuietly(reg[k], l)]

----------------------------------------------------------------------------
\* Messages and queue entries

NoData == [cls |-> "none", message_type |-> "none"]
\* a message that is not a Signal: an object with a message_type (the
\* Message protocol, lines 79-84), a UserConfirmRequest for its kind
\* (lines 226-232)
Payload(k) ==
    [cls |-> IF k = "user_confirm_request" THEN "UserConfirmRequest"
             ELSE "Message",
     message_type |-> k]
\* Signal.__init__, lines 246-247
SignalOf(k) == [cls |-> "Signal", message_type |-> k]

\* str of a MessageType member, as a list of text pieces
EnumStr(k) == <<"MessageType.", k>>
\* Signal.__str__, lines 249-250
SignalStr_NoKind(m) == <<"Signal: ">>
SignalStr(m) == <<"Signal: ", EnumStr(m.message_type)>>
\* str(other) in Signal.__eq__: of a Signal, __str__; of another message,
\* a text that starts with its class name
Str(m) == IF m.cls = "Signal" THEN SignalStr(m)
          ELSE <<m.cls, EnumStr(m.message_type)>>
\* Signal.__eq__, lines 252-253
SignalEq(a, b) == SignalStr(a) = Str(b)

\* Python frames as (file, line being executed): the code that calls the
\* broker, signal at its call of send, send at its call of get_caller,
\* get_caller at its call of extract_stack
UserFrame == [file |-> "caller", line |-> 0]
SignalFrame == [file |-> "message_broker.py", line |-> 109]
SendFrame == [file |-> "message_broker.py", line |-> 104]
GetCallerFrame == [file |-> "message_broker.py", line |-> 138]
\* the default of get_caller's position parameter, line 136
GetCallerPosition == 3
\* traceback.extract_stack(limit): the innermost frames, at most limit of
\* them, the outermost first
ExtractStack(frames, limit) ==
    IF Len(frames) <= limit THEN frames
    ELSE SubSeq(frames, Len(frames) - limit + 1, Len(frames))
\* get_caller, lines 135-139, called by send with these frames below it
GetCaller(frames) ==
    ExtractStack(frames \o <<GetCallerFrame>>, GetCallerPosition)[1]
\* the frames when send runs line 104: called by the application or a
\* listener (via = "send"), or by signal, line 109 (via = "signal")
CallChain(via) == IF via = "signal" THEN <<UserFrame, SignalFrame, SendFrame>>
                  ELSE <<UserFrame, SendFrame>>
\* the tuple send appends, line 104 (id: its number in append order;
\* kind: data.message_type)
Entry(id, data, via) ==
    [id |-> id, kind |-> data.message_type, data |-> data,
     origin |-> GetCaller(CallChain(via))]

\* the argument of msg.respond, common.py line 162
RespondArg(response) == response = "ACCEPT"
NoAnswer == [response |-> "none", arg |-> FALSE]
\* common.py lines 161-164: the dialog listener returns after run() has
\* returned and respond was called
Answered_Async(isDialog, resp) == TRUE
Answered(isDialog, resp) == isDialog => resp # NoAnswer

----------------------------------------------------------------------------
\* The call stack

NoFrame == [t |-> "none", id |-> 0, kind |-> "none", data |-> NoData,
            snap |-> {}, done |-> {}, l |-> "none", stale |-> FALSE,
            selfGone |-> {}]
\* an activation of _send_all inside its while loop; id = 0 between two
\* dispatches, else the entry _send is dispatching, with the copy of the
\* listener set (snap) and the listeners that have returned (done)
DrainFrame == [NoFrame EXCEPT !.t = "drain"]
\* an activation of listener l, called with the message (data) of entry
\* id; stale: l was no longer registered for the kind when it was called
ListenerFrame(id, k, data, l, stale) ==
    [NoFrame EXCEPT !.t = "listener", !.id = id, !.kind = k, !.data = data,
                    !.l = l, !.stale = stale]

Top == IF stack = <<>> THEN NoFrame ELSE stack[Len(stack)]
Below == IF Len(stack) < 2 THEN NoFrame ELSE stack[Len(stack) - 1]
AtTopLevel == stack = <<>>
InListener == Top.t = "listener"
\* code outside the broker is running: the application or a listener
InUserCode == AtTopLevel \/ InListener
\* _on_user_confirm_request is running
InDialog == InListener /\ Top.l = DialogListener
            /\ Top.data.cls = "UserConfirmRequest"
Dispatching == Top.t = "drain" /\ Top.id # 0
TopRemaining == Remaining(Top.snap, listeners[Top.kind], Top.done)

\* what is recorded of an entry: its kind, the entry whose listener sent
\* it (0: sent from outside), where it is, whether a listener was called
\* with it, the listeners unsubscribed before it was sent (until one is
\* subscribed again or the dispatch ends), the listeners of its snapshot
\* that had been subscribed more than once, and, when _send returned, the
\* snapshot listeners that did not run (miss) and the others that did
\* (extra); atSend: the listeners of its kind when it was appended (in
\* the runs of SpecSnapshot, until the dispatch ends); via: appended by a call of send or of signal; dlg:
\* it is a UserConfirmRequest and the dialog listener was registered for
\* it when it was popped; resp: what run() returned and what respond was
\* called with
NoHist == [kind |-> "none", from |-> 0, st |-> "unsent", inv |-> FALSE,
           banned |-> {}, dup |-> {}, miss |-> {}, extra |-> {},
           atSend |-> {}, via |-> "none", dlg |-> FALSE, resp |-> NoAnswer]
\* a top-level send: its entry, how it ended, the kind of the entry whose
\* listener raised in an earlier call, the number of entries that were in
\* the queue when it was made, and whether its kind had no listener then
NoCall == [id |-> 0, st |-> "idle", after |-> "none", left |-> 0,
           zero |-> FALSE]
NoRaise == [what |-> "none", id |-> 0, l |-> "none", queue |-> <<>>, npopped |-> 0]

\* MessageBroker.__init__, lines 96-99
Init ==
    /\ listeners = [k \in Kinds |-> {}]
    /\ messages = <<>>
    /\ sending = FALSE
    /\ stack = <<>>
    /\ nextId = 1
    /\ regOps = 0
    /\ popped = <<>>
    /\ hist = [i \in Ids |-> NoHist]
    /\ gone = {}
    /\ twice = {}
    /\ call = NoCall
    /\ lastRaise = NoRaise
    /\ ret = "none"

----------------------------------------------------------------------------
\* Operations

\* the record of a top-level send call that starts now
NewCall(st, k) ==
    [id |-> nextId, st |-> st,
     after |-> IF call.st = "raised" /\ lastRaise.id # 0
               THEN hist[lastRaise.id].kind ELSE call.after,
     left |-> Len(messages), zero |-> listeners[k] = {}]

\* send, lines 101-105, called with the message data by the application
\* or a listener (via = "send") or by signal (via = "signal"), with the
\* entry of _send_all, lines 116-122; noted: the history keeps the
\* listener set the kind has at the append
SendMsg(data, via, noted) ==
    /\ InUserCode
    /\ nextId <= MaxMsgs
    /\ messages' = Enqueue(messages, Entry(nextId, data, via))
    /\ nextId' = nextId + 1
    /\ hist' = [hist EXCEPT ![nextId] =
                  [@ EXCEPT !.kind = data.message_type, !.from = Top.id,
                            !.st = "queued", !.banned = gone,
                            !.atSend = IF noted
                                       THEN listeners[data.message_type]
                                       ELSE {},
                            !.via = via]]
    /\ IF AlreadySending(sending)
       THEN /\ UNCHANGED <<sending, stack>>
            /\ call' = IF AtTopLevel
                       THEN NewCall("returned", data.message_type) ELSE call
       ELSE /\ sending' = TRUE
            /\ stack' = Append(stack, DrainFrame)
            /\ call' = IF AtTopLevel
                       THEN NewCall("running", data.message_type) ELSE call
    /\ lastRaise' = IF AtTopLevel THEN NoRaise ELSE lastRaise
    /\ UNCHANGED <<listeners, regOps, popped, gone, twice, ret>>

\* send(data) with a message of kind k that is not a Signal
Send(k) == SendMsg(Payload(k), "send", FALSE)

\* the same, the listener set at the append noted
SendNoted(k) == SendMsg(Payload(k), "send", TRUE)

\* signal(k), lines 107-109
Signal(k) == SendMsg(SignalOf(k), "signal", FALSE)

\* send(Signal(k))
SendSignal(k) == SendMsg(SignalOf(k), "send", FALSE)

\* one turn of the while loop up to the start of _send's for loop,
\* lines 124-125 and 111-113
DrainPop ==
    /\ Top.t = "drain" /\ Top.id = 0
    /\ QueueNonEmpty(messages)
    /\ LET r == PopLeft(messages)
           e == r.head
       IN /\ messages' = r.rest
          /\ stack' = [stack EXCEPT ![Len(stack)] =
                         [@ EXCEPT !.id = e.id, !.kind = e.data.message_type,
                                   !.data = e.data,
                                   !.snap = CopyAtPop(hist[e.id].atSend,
                                              ListenersFor(listeners, e.kind))]]
          /\ popped' = Append(popped, e.id)
          /\ hist' = [hist EXCEPT ![e.id] =
                        [@ EXCEPT !.st = "open",
                                  !.dlg = /\ e.data.cls = "UserConfirmRequest"
                                          /\ DialogListener \in
                                                listeners[e.data.message_type],
                                  !.dup = {l \in listeners[e.kind] :
                                             <<e.kind, l>> \in twice}]]
    /\ UNCHANGED <<listeners, sending, nextId, regOps, gone, twice, call,
                   lastRaise, ret>>

\* `listener(data)`, line 114: the call
Invoke(l) ==
    /\ Dispatching
    /\ l \in TopRemaining
    /\ stack' = Append(stack, ListenerFrame(Top.id, Top.kind, Top.data, l,
                                            l \notin listeners[Top.kind]))
    /\ hist' = [hist EXCEPT ![Top.id].inv = TRUE]
    /\ UNCHANGED <<listeners, messages, sending, nextId, regOps, popped, gone,
                   twice, call, lastRaise, ret>>

\* common.py lines 161-162: message_dialog.run() returns the user's
\* response and the listener calls msg.respond with the answer
Respond(response) ==
    /\ InDialog
    /\ hist[Top.id].resp = NoAnswer
    /\ hist' = [hist EXCEPT ![Top.id].resp =
                  [response |-> response, arg |-> RespondArg(response)]]
    /\ UNCHANGED <<listeners, messages, sending, stack, nextId, regOps, popped,
                   gone, twice, call, lastRaise, ret>>

\* `listener(data)`, line 114: the listener returns
ListenerReturn ==
    /\ InListener
    /\ Answered(InDialog, hist[Top.id].resp)
    /\ LET n == Len(stack) - 1
       IN stack' = [SubSeq(stack, 1, n) EXCEPT
                      ![n].done = @ \cup {Top.l},
                      ![n].selfGone = @ \cup Top.selfGone]
    /\ UNCHANGED <<listeners, messages, sending, nextId, regOps, popped, hist,
                   gone, twice, call, lastRaise, ret>>

\* the for loop of _send is exhausted and _send returns, lines 113-114
SendReturn ==
    /\ Dispatching
    /\ TopRemaining = {}
    /\ stack' = [stack EXCEPT ![Len(stack)] = DrainFrame]
    /\ hist' = [hist EXCEPT ![Top.id] =
                  [@ EXCEPT !.st = "done", !.banned = {}, !.atSend = {},
                            !.miss = Top.snap \ Top.done,
                            !.extra = Top.done \ Top.snap]]
    /\ UNCHANGED <<listeners, messages, sending, nextId, regOps, popped, gone,
                   twice, call, lastRaise, ret>>

\* the while loop ends, the finally clause runs and _send_all and send
\* return, lines 124-127 and 105
DrainExit ==
    /\ Top.t = "drain" /\ Top.id = 0
    /\ ~QueueNonEmpty(messages)
    /\ sending' = Finally(sending)
    /\ stack' = SubSeq(stack, 1, Len(stack) - 1)
    /\ call' = IF Len(stack) = 1 THEN [call EXCEPT !.st = "returned"] ELSE call
    /\ UNCHANGED <<listeners, messages, nextId, regOps, popped, hist, gone,
                   twice, lastRaise, ret>>

\* an exception leaves the code running on top of the stack and nothing
\* catches it: every _send_all it passes runs its finally clause
\* (lines 126-127) and it reaches the caller of the top-level call
Unwound(what) ==
    /\ stack' = <<>>
    /\ sending' = IF \E i \in 1..Len(stack) : stack[i].t = "drain"
                  THEN Finally(sending) ELSE sending
    /\ call' = IF AtTopLevel THEN call ELSE [call EXCEPT !.st = "raised"]
    /\ lastRaise' = [what |-> what, id |-> Top.id, l |-> Top.l,
                     queue |-> messages, npopped |-> Len(popped)]
    /\ hist' = [i \in Ids |->
                  IF hist[i].st = "open"
                  THEN [hist[i] EXCEPT !.st = "aborted", !.banned = {},
                                       !.atSend = {}]
                  ELSE hist[i]]

\* `listener(data)`, line 114: the listener raises
ListenerRaise ==
    /\ InListener
    /\ Unwound("listener")
    /\ UNCHANGED <<listeners, messages, nextId, regOps, popped, gone, twice,
                   ret>>

\* subscribe, lines 129-133
Subscribe(k, l) ==
    /\ InUserCode
    /\ regOps < MaxRegOps
    /\ regOps' = regOps + 1
    /\ listeners' = [listeners EXCEPT ![k] = SetAdd(@, l)]
    /\ gone' = gone \ {l}
    /\ twice' = IF l \in listeners[k] THEN twice \cup {<<k, l>>} ELSE twice
    /\ hist' = [i \in Ids |-> [hist[i] EXCEPT !.banned = @ \ {l}]]
    /\ ret' = SubscribeResult
    /\ UNCHANGED <<messages, sending, stack, nextId, popped, call, lastRaise>>

\* unsubscribe, lines 141-146
Unsubscribe(l) ==
    /\ InUserCode
    /\ regOps < MaxRegOps
    /\ regOps' = regOps + 1
    /\ LET r == RemoveEverywhere(listeners, l)
       IN /\ listeners' = [k \in Kinds |-> r[k].set]
          /\ gone' = gone \cup {l}
          /\ twice' = {p \in twice : p[2] # l}
          /\ IF \E k \in Kinds : r[k].raised
             THEN Unwound("KeyError")
             ELSE /\ stack' = IF InListener /\ Top.l = l
                              THEN [stack EXCEPT ![Len(stack)].selfGone = {l}]
                              ELSE stack
                  /\ UNCHANGED <<sending, call, lastRaise, hist>>
    /\ UNCHANGED <<messages, nextId, popped, ret>>

\* the kinds of the runs explored: messages with data, and signals
PayloadKinds == {"mapping"}
SignalKinds == {"test1"}

Next ==
    \/ \E k \in PayloadKinds : Send(k)
    \/ \E k \in SignalKinds : Signal(k)
    \/ DrainPop
    \/ \E l \in Listeners : Invoke(l)
    \/ ListenerReturn
    \/ SendReturn
    \/ DrainExit
    \/ ListenerRaise
    \/ \E k \in PayloadKinds \cup SignalKinds, l \in Listeners : Subscribe(k, l)
    \/ \E l \in Listeners : Unsubscribe(l)

Spec == Init /\ [][Next]_vars

\* shorter runs for the specifications below
MsgQuota == MaxMsgs - 1
RegQuota == MaxRegOps - 1

\* the broker used with signals only, sent by signal(k) or by
\* send(Signal(k))
NextSignal ==
    \/ \E k \in {"mapping", "test1"} : nextId <= MsgQuota /\ Signal(k)
    \/ \E k \in {"mapping", "test1"} : nextId <= MsgQuota /\ SendSignal(k)
    \/ DrainPop
    \/ \E l \in Listeners : Invoke(l)
    \/ ListenerReturn
    \/ SendReturn
    \/ DrainExit
    \/ ListenerRaise
    \/ \E k \in {"mapping", "test1"}, l \in Listeners :
          regOps < RegQuota /\ Subscribe(k, l)
    \/ \E l \in Listeners : regOps < RegQuota /\ Unsubscribe(l)

SpecSignal == Init /\ [][NextSignal]_vars

\* the broker with the listener set at each append noted
NextSnapshot ==
    \/ \E k \in {"mapping", "test1"} : nextId <= MsgQuota /\ SendNoted(k)
    \/ DrainPop
    \/ \E l \in Listeners : Invoke(l)
    \/ ListenerReturn
    \/ SendReturn
    \/ DrainExit
    \/ ListenerRaise
    \/ \E k \in {"mapping", "test1"}, l \in Listeners : Subscribe(k, l)
    \/ \E l \in Listeners : Unsubscribe(l)

SpecSnapshot == Init /\ [][NextSnapshot]_vars

\* the broker with the confirm dialog: listener A is
\* _on_user_confirm_request when it is called with a UserConfirmRequest
NextConfirm ==
    \/ \E k \in {"mapping", "user_confirm_request"} :
          nextId <= MsgQuota /\ Send(k)
    \/ DrainPop
    \/ \E l \in Listeners : Invoke(l)
    \/ \E r \in Responses : Respond(r)
    \/ ListenerReturn
    \/ SendReturn
    \/ DrainExit
    \/ ListenerRaise
    \/ \E k \in {"mapping", "user_confirm_request"}, l \in Listeners :
          regOps < RegQuota /\ Subscribe(k, l)
    \/ \E l \in Listeners : regOps < RegQuota /\ Unsubscribe(l)

SpecConfirm == Init /\ [][NextConfirm]_vars

----------------------------------------------------------------------------
\* Properties

Sent(i) == i < nextId
Closed(i) == hist[i].st \in {"done", "aborted"}
DrainDepth == Cardinality({i \in 1..Len(stack) : stack[i].t = "drain"})
ListenerDepth == Cardinality({i \in 1..Len(stack) : stack[i].t = "listener"})

\* C1: entries are popped for dispatch in the order they were appended
\* (ids count the appends): the pops so far are entries 1, 2, ... and the
\* queue holds the following ones in append order, also when a listener
\* appended them during a dispatch.
C1_DispatchOrder ==
    /\ \A i \in 1..Len(popped) : popped[i] = i
    /\ \A i \in 1..Len(messages) : messages[i].id = Len(popped) + i
    /\ Len(popped) + Len(messages) = nextId - 1

\* two entries sent by listeners, one behind the other, both dispatched
C1_Witness ==
    \E i \in Ids : /\ i > 1
                   /\ hist[i].from # 0 /\ hist[i - 1].from # 0
                   /\ hist[i].st = "done" /\ hist[i - 1].st = "done"

\* C2 as stated: once a listener has been called with M2, every listener
\* of the snapshot of each earlier M1 has been called and has returned.
C2_Orig ==
    \A m1 \in Ids, m2 \in Ids :
        (m1 < m2 /\ hist[m2].inv) =>
            (hist[m1].st = "done" /\ hist[m1].miss = {})

\* C2 amended: once a listener has been called with M2, the dispatch of
\* each earlier M1 is over: every listener of its snapshot was called and
\* returned (and no other), or a listener raised and ended it. Hence a
\* listener that gets both gets M1 first.
C2_Fifo ==
    \A m1 \in Ids, m2 \in Ids :
        (m1 < m2 /\ hist[m2].inv) =>
            /\ Closed(m1)
            /\ hist[m1].st = "done" => (hist[m1].miss = {} /\ hist[m1].extra = {})

\* M2 was sent by a listener handling M1, whose dispatch a listener then
\* aborted, and M2 has been delivered since
C2_Witness ==
    \E m1 \in Ids, m2 \in Ids :
        /\ m1 < m2 /\ hist[m2].inv /\ hist[m2].from = m1
        /\ hist[m1].st = "aborted"

\* C3: at most one activation of _send_all's loop and at most one listener
\* activation are on the stack; a running listener was called by that loop,
\* with the flag set.
C3_OneDrain ==
    /\ DrainDepth <= 1
    /\ ListenerDepth <= 1
    /\ InListener => (Below.t = "drain" /\ sending /\ Len(stack) = 2)

\* a listener has sent a message, still queued, and runs on
C3_Witness ==
    /\ InListener
    /\ \E i \in Ids : hist[i].st = "queued" /\ hist[i].from = Top.id

\* C4: a listener subscribed again to a kind it is registered for stays
\* registered for it (a set holds it once), and a dispatch calls no
\* listener a second time and, when it returns, has called each listener
\* of the snapshot.
C4_SubscribeIdempotent ==
    /\ \A p \in twice : p[2] \in listeners[p[1]]
    /\ InListener => Top.l \notin Below.done
    /\ \A i \in Ids : hist[i].st = "done" => hist[i].miss = {}

\* a dispatch has returned whose snapshot held a listener subscribed twice
C4_Witness == \E i \in Ids : hist[i].st = "done" /\ hist[i].dup # {}

C6_RaiseLeavesQueue ==
    (AtTopLevel /\ call.st = "raised") =>
        /\ ~sending
        /\ lastRaise.what = "listener"
        /\ messages = lastRaise.queue
        /\ Len(popped) = lastRaise.npopped

\* a send has raised with entries queued behind the failing one
C6_Witness == AtTopLevel /\ call.st = "raised" /\ messages # <<>>

\* C7 as stated: a top-level send made after an earlier one raised, of a
\* kind other than the one whose listener raised, raises only if a
\* listener of its own message (or one registered for its kind) raised.
C7_Orig ==
    (/\ AtTopLevel /\ call.st = "raised"
     /\ call.after # "none" /\ hist[call.id].kind # call.after) =>
        \/ lastRaise.id = call.id
        \/ lastRaise.l \in listeners[hist[call.id].kind]

\* C7 amended: such a send, when it returns, has emptied the queue, cleared
\* the flag and dispatched its own message; when it raises instead, a
\* listener raised during its drain (possibly one of a left-over entry),
\* and the flag is false again.
C7_SecondSend ==
    /\ (AtTopLevel /\ call.after # "none" /\ call.st = "returned") =>
          (messages = <<>> /\ ~sending /\ hist[call.id].st = "done")
    /\ (AtTopLevel /\ call.after # "none" /\ call.st = "raised") =>
          (/\ lastRaise.what = "listener" /\ ~sending
           /\ hist[lastRaise.id].st = "aborted")

\* a send of another kind returned after flushing an entry that an aborted
\* drain had left in the queue
C7_Witness ==
    /\ AtTopLevel /\ call.st = "returned"
    /\ call.after # "none" /\ hist[call.id].kind # call.after
    /\ \E i \in Ids, j \in Ids :
          /\ hist[i].st = "aborted" /\ hist[j].from = i
          /\ j < call.id /\ hist[j].st = "done"

\* C8: in a dispatch in which a listener has unsubscribed itself, the
\* listeners still to be called are the rest of the snapshot, and when the
\* for loop is exhausted every listener of the snapshot has run, once.
C8_SelfUnsubscribe ==
    /\ (Dispatching /\ Top.selfGone # {}) =>
          /\ TopRemaining = Top.snap \ Top.done
          /\ TopRemaining = {} => Top.done = Top.snap
    /\ (InListener /\ Below.selfGone # {}) =>
          (Top.l \in Below.snap /\ Top.l \notin Below.done)

\* another listener is called after one unsubscribed itself in the same
\* dispatch
C8_Witness ==
    /\ InListener
    /\ Below.selfGone # {}
    /\ Top.l \notin Below.selfGone

\* C9: only listeners of the snapshot are called for an entry, each
\* snapshot listener has been called when the dispatch returns, whatever
\* was subscribed or unsubscribed meanwhile, and the snapshot of an entry
\* is the registry as it is when the entry is popped.
C9_NextEntry ==
    /\ InListener => Top.l \in Below.snap
    /\ \A i \in Ids : hist[i].st = "done" =>
          (hist[i].miss = {} /\ hist[i].extra = {})
    /\ (Dispatching /\ Top.done = {}) => Top.snap = listeners[Top.kind]

\* a listener runs that an earlier listener of the same dispatch has
\* unsubscribed
C9_Witness == InListener /\ Top.stale

\* C10: when a top-level send has returned, the queue is empty, the flag
\* is false and every entry appended so far has been popped and its
\* dispatch is over.
C10_ReturnMeansDrained ==
    (AtTopLevel /\ call.st = "returned") =>
        /\ messages = <<>>
        /\ ~sending
        /\ Len(popped) = nextId - 1
        /\ \A i \in Ids : Sent(i) => Closed(i)

\* a send has returned during which a listener sent a further message
C10_Witness ==
    /\ AtTopLevel /\ call.st = "returned"
    /\ \E i \in Ids : hist[i].from # 0 /\ hist[i].st = "done"

\* C11 as stated: whenever a send of a UserConfirmRequest for which the
\* dialog listener is registered has returned, respond has been called:
\* for a send made by a listener (it returns at once, the entry waiting in
\* the queue) as for a top-level send that returned.
C11_Orig ==
    \A i \in Ids :
        hist[i].kind = "user_confirm_request" =>
            /\ (/\ hist[i].from # 0 /\ hist[i].st = "queued"
                /\ DialogListener \in listeners["user_confirm_request"])
                  => hist[i].resp # NoAnswer
            /\ (/\ AtTopLevel /\ call.id = i /\ call.st = "returned"
                /\ hist[i].dlg)
                  => hist[i].resp # NoAnswer

\* C11 amended: when a send made at top level (no drain in progress)
\* returns normally, its own entry has been dispatched, and for every
\* UserConfirmRequest dispatched to the dialog listener, respond has been
\* called, with true exactly if the user accepted. A send made by a
\* listener returns before its entry is dispatched; respond is called
\* when the drain in progress completes the dispatch of that entry.
C11_RespondedOnReturn ==
    /\ \A i \in Ids :
          (hist[i].dlg /\ hist[i].st = "done") =>
              /\ hist[i].resp # NoAnswer
              /\ hist[i].resp.arg <=> hist[i].resp.response = "ACCEPT"
    /\ (AtTopLevel /\ call.st = "returned") =>
          /\ hist[call.id].st = "done"
          /\ \A i \in Ids : Sent(i) => Closed(i)

\* a top-level send of a UserConfirmRequest has returned; the dialog
\* listener was called with it and has called respond with true
C11_Witness ==
    /\ AtTopLevel /\ call.st = "returned"
    /\ hist[call.id].kind = "user_confirm_request"
    /\ hist[call.id].dlg
    /\ hist[call.id].resp = [response |-> "ACCEPT", arg |-> TRUE]

C13_Orig ==
    \A n \in 1..Len(messages) :
        hist[messages[n].id].via = "signal" =>
            messages[n] = Entry(messages[n].id,
                                SignalOf(hist[messages[n].id].kind), "send")

\* C13 amended: signal(K) behaves like send(Signal(K)) except for the
\* origin recorded in the queue entry, which is the call of send inside
\* signal (message_broker.py, line 109) and not the caller of signal. The
\* entry is otherwise the same, the step has the same effect on queue,
\* flag, registry and call stack, the message a listener is called with
\* has kind K and is equal to Signal(K), and two Signals are equal exactly
\* if their kinds are the same.
C13_SignalIsSend ==
    /\ [](/\ \A n \in 1..Len(messages) :
                LET e == messages[n]
                    s == Entry(e.id, SignalOf(hist[e.id].kind), "send")
                IN /\ [e EXCEPT !.origin = s.origin] = s
                   /\ hist[e.id].via = "signal" => e.origin = SignalFrame
                   /\ hist[e.id].via = "send" => e.origin = UserFrame
          /\ InListener =>
                /\ Top.data.message_type = hist[Top.id].kind
                /\ SignalEq(Top.data, SignalOf(hist[Top.id].kind))
                /\ SignalEq(SignalOf(hist[Top.id].kind), Top.data)
          /\ \A a \in Kinds, b \in Kinds :
                SignalEq(SignalOf(a), SignalOf(b)) <=> a = b)
    /\ [][nextId' = nextId + 1 =>
             LET s == Entry(nextId, SignalOf(hist'[nextId].kind), "send")
             IN /\ messages' = Enqueue(messages,
                                  [s EXCEPT !.origin = messages'[Len(messages')].origin])
                /\ sending' = TRUE
                /\ stack' = IF sending THEN stack ELSE Append(stack, DrainFrame)
                /\ listeners' = listeners /\ popped' = popped]_vars

\* a listener is called with the message of a send(Signal(K)) after a
\* signal(K) of the same kind was delivered
C13_Witness ==
    /\ InListener /\ hist[Top.id].via = "send"
    /\ \E j \in Ids : /\ j < Top.id /\ hist[j].via = "signal"
                      /\ hist[j].kind = Top.kind
                      /\ hist[j].st = "done" /\ hist[j].inv

\* the current or last top-level call is a signal of a kind that had no
\* listener when it was made
ZeroSignal == call.zero /\ call.id # 0 /\ hist[call.id].via = "signal"

\* C14 as stated: a signal of a kind without listeners does not end with
\* an exception, no listener is called during it, and when it is over the
\* queue is empty.
C14_Orig ==
    ZeroSignal =>
        /\ call.st # "raised"
        /\ ~InListener
        /\ AtTopLevel => messages = <<>>

\* C14 amended: a signal of a kind without listeners, made at top level
\* when the queue is empty, returns without an exception; during it no
\* listener is called and no listener set changes (the set of its kind
\* stays empty), and when it has returned the queue is empty and the flag
\* is false. (With entries left by an aborted drain in the queue, the
\* signal dispatches those first: their listeners are called and may
\* raise.)
C14_QuietSignal ==
    /\ []((ZeroSignal /\ call.left = 0) =>
            /\ call.st # "raised"
            /\ ~InListener
            /\ ~hist[call.id].inv
            /\ call.st = "running" => listeners[hist[call.id].kind] = {}
            /\ AtTopLevel => (messages = <<>> /\ ~sending /\ call.st = "returned"))
    /\ [][(ZeroSignal' /\ call'.left = 0 /\
             (call'.id # call.id \/ call.st = "running")) =>
                listeners' = listeners]_vars

\* a signal of a kind without listeners, made with an empty queue while
\* another kind has a listener, has returned
C14_Witness ==
    /\ ZeroSignal /\ call.left = 0
    /\ AtTopLevel /\ call.st = "returned"
    /\ listeners[hist[call.id].kind] = {}
    /\ \E k \in Kinds : listeners[k] # {}

\* C15: a send made by a running listener, that is while a drain is in
\* progress, appends its entry to the tail of the queue and returns: the
\* call stack, the entries popped and the flag are as before, and no
\* listener has been called, neither with the new entry nor with another.
C15_NestedSendOnlyAppends ==
    [][(InListener /\ nextId' = nextId + 1) =>
          /\ Len(messages') = Len(messages) + 1
          /\ SubSeq(messages', 1, Len(messages)) = messages
          /\ messages'[Len(messages')].id = nextId
          /\ stack' = stack
          /\ popped' = popped
          /\ sending' = sending
          /\ hist'[nextId].st = "queued"
          /\ \A i \in Ids : hist'[i].inv = hist[i].inv /\ hist'[i].miss = hist[i].miss]_vars

\* a listener has sent an entry and is still running: the entry waits in
\* the queue and no listener has been called with it
C15_Witness ==
    /\ InListener
    /\ \E i \in Ids : /\ hist[i].from = Top.id /\ hist[i].st = "queued"
                      /\ ~hist[i].inv
                      /\ messages[Len(messages)].id = i

\* C16: the listeners that get an entry are those registered for its kind
\* when it is popped, not when it was sent: the copy made at the pop is the
\* registered set of that moment, only listeners of the copy are called,
\* and when _send returns all of them have been called. So a listener
\* subscribed after the append and before the pop gets the entry, and one
\* unsubscribed in between does not.
C16_SnapshotAtPop ==
    /\ (Dispatching /\ Top.done = {}) =>
          \A l \in Listeners : l \in Top.snap <=> l \in listeners[Top.kind]
    /\ InListener => Top.l \in Below.snap
    /\ (Dispatching /\ TopRemaining = {}) => Top.snap = Top.done

\* an entry whose dispatch is complete: a listener registered when it was
\* sent was unsubscribed before the pop and was not called, and a listener
\* subscribed in between was called
C16_Witness ==
    /\ Dispatching /\ TopRemaining = {}
    /\ hist[Top.id].atSend \ Top.done # {}
    /\ Top.done \ hist[Top.id].atSend # {}

\* C17: a send made when an aborted drain has left entries in the queue
\* dispatches those entries first, in their order, and its own entry after
\* them: when its own entry is popped every earlier entry has been
\* dispatched, and the pops follow the append order. Nothing but a send
\* dispatches: a step made at top level that is not a send (subscribe,
\* unsubscribe) leaves the queue and the popped entries as they are and
\* starts no dispatch.
C17_LeftOverFirst ==
    /\ [](/\ (call.id # 0 /\ hist[call.id].st # "queued") =>
                \A i \in Ids : i < call.id => Closed(i)
          /\ \A i \in 1..Len(popped), j \in 1..Len(popped) :
                i < j => popped[i] < popped[j]
          /\ (Dispatching \/ InListener) => (call.st = "running" /\ stack[1].t = "drain"))
    /\ [][(AtTopLevel /\ nextId' = nextId) =>
             (messages' = messages /\ popped' = popped /\ AtTopLevel'
              /\ \A i \in Ids : hist'[i].st = hist[i].st)]_vars

\* a send found entries left in the queue and has dispatched them and
\* then its own entry
C17_Witness ==
    /\ call.left > 0
    /\ hist[call.id].st = "done"
    /\ \A i \in Ids : i < call.id => Closed(i)

\* C18: an entry is dispatched at most once: it is popped once, it is no
\* longer in the queue when its listeners run, and once its dispatch is
\* over, completed or aborted by a raising listener, no activation on the
\* call stack is for it again, so the listeners that had not been called
\* when the exception was raised never get it.
C18_AtMostOnce ==
    /\ \A i \in 1..Len(popped), j \in 1..Len(popped) :
          popped[i] = popped[j] => i = j
    /\ \A i \in 1..Len(messages) : hist[messages[i].id].st = "queued"
    /\ \A n \in 1..Len(stack) : stack[n].id # 0 => hist[stack[n].id].st = "open"
    /\ \A i \in Ids : Closed(i) => \A n \in 1..Len(messages) : messages[n].id # i

\* the dispatch of an entry was aborted by a raising listener, and a later
\* send has drained the queue and returned
C18_Witness ==
    /\ AtTopLevel /\ call.st = "returned"
    /\ \E i \in Ids : hist[i].st = "aborted" /\ i < call.id

\* C19: _sending is true exactly when an activation of the drain loop is
\* on the call stack: false whenever no send is in progress, after a
\* return as after an exception, and true while a listener runs.
C19_FlagIffDraining ==
    /\ sending <=> DrainDepth > 0
    /\ AtTopLevel => ~sending
    /\ InListener => sending

\* a listener runs in a send made after an earlier send had ended with an
\* exception
C19_Witness == InListener /\ sending /\ call.after # "none"

\* C20: subscribe and unsubscribe change the registry only: a step that
\* is one of them leaves the queue, the popped entries, the flag and the
\* call stack as they are (no listener is called, none is ended), a
\* subscribe adds one listener to the set of one kind and leaves the sets
\* of the other kinds as they are, and it returns the broker.
C20_RegistryOnly ==
    [][(regOps' # regOps) =>
          LET grown == {k \in Kinds : ~(listeners'[k] \subseteq listeners[k])}
          IN /\ messages' = messages /\ popped' = popped /\ nextId' = nextId
             /\ sending' = sending
             /\ Len(stack') = Len(stack)
             /\ \A n \in 1..Len(stack) :
                   [stack'[n] EXCEPT !.selfGone = {}] =
                   [stack[n] EXCEPT !.selfGone = {}]
             /\ \A i \in Ids : hist'[i].inv = hist[i].inv /\ hist'[i].st = hist[i].st
             /\ Cardinality(grown) <= 1
             /\ \A k \in grown :
                   /\ listeners[k] \subseteq listeners'[k]
                   /\ Cardinality(listeners'[k] \ listeners[k]) = 1
                   /\ \A j \in Kinds \ {k} : listeners'[j] = listeners[j]
                   /\ ret' = "self"]_vars

\* a running listener has unsubscribed itself and subscribed a listener
\* while an entry waits in the queue and the drain is in progress
C20_Witness ==
    /\ InListener /\ Top.selfGone # {} /\ Top.l \notin listeners[Top.kind]
    /\ messages # <<>> /\ sending
    /\ ret = "self" /\ listeners[Top.kind] # {}

====
